---- MODULE Spec2Model ----
(***************************************************************************)
(* Model of the video relay backend (src/unnamed/part_001, with the        *)
(* check-session route of src/unnamed/part_000): the Mongo-backed Link and *)
(* Session stores, the login / check-session / logout handlers, the       *)
(* upload pipeline (multer staging, compressVideo, sendTelegramVideo,      *)
(* cleanup), and the bot webhooks POST /main (the /add conversation) and   *)
(* POST /webhook/:token, whose handlers interleave at their awaits.        *)
(*                                                                         *)
(* Representation.  A user id is a sequence of one-character strings, so   *)
(* that the /^\d+$/ test is computed; the empty sequence stands for every  *)
(* falsy user id (undefined, null, ""), which the code never tells apart   *)
(* (`!user_id`, `!userId`).  A chat text is a sequence of characters as    *)
(* well, and so is a bot token, which reaches the store as the trimmed     *)
(* text of a chat message; the empty sequence stands for a null token      *)
(* (`!token`, `!botToken`).  A path is a string, "null" for null.  A       *)
(* session id is a positive number, 0 for no cookie / null.                *)
(* The clock counts half-weeks (302400000 ms), so that the session         *)
(* lifetime 7 * 86400 * 1000 ms is two ticks.                              *)
(***************************************************************************)
EXTENDS Integers, Sequences, FiniteSets, TLC

VARIABLES
    \* ---- the store (MongoDB) and the process's view of it
    botLinks,       \* collection bot_links: set of [user_id, bot_token]
    sessions,       \* collection sessions: set of [session_id, user_id, expires]
    dbConnected,    \* the flag of part_001:64
    connPc,         \* connectToMongoDB: "pending" | "indexing" | "done"
    storeUp,        \* environment: the database answers
    now,            \* environment: Date.now(), in half-weeks
    \* ---- login / check-session / logout
    nextSid,        \* the next fresh uuidv4()
    lpc,            \* login handler: "idle" | "create"
    luser,          \* login handler: user_id awaiting createSession
    resp,           \* the response sent at the current instant by login /
                    \* check-session / logout (none once the clock has moved on),
                    \* with what the request did: lookedUp, unavail
    issued,         \* history: session rows whose id a 200 login put in a cookie
    loggedOut,      \* history: session ids carried by an answered logout
    \* ---- upload
    ffmpegPath,     \* FFMPEG_PATH found at startup (TRUE) or null (FALSE)
    staged,         \* the file names of the uploads in flight: request -> names
    unlinks,        \* history: the fs.unlinkSync calls of the request, in order
    upc,            \* position of the upload request
    ureq,           \* the request: [cookie, part, size]
    disk,           \* temp dir: path -> content ("absent" when no such file)
    originalPath,   \* local of the handler
    finalFilePath,  \* local of the handler
    uUser,          \* local userId
    uToken,         \* local botToken
    cv,             \* compressVideo: [ret, threw] once it has returned
    result,         \* what sendTelegramVideo returned
    execLog,        \* external commands run by this request, in order
    fsLog,          \* file creations/deletions done inside compressVideo
    sent,           \* what was handed to sendTelegramVideo
    uresp,          \* the response to the upload request
    \* ---- the bots: POST /main and POST /webhook/:token
    convState,      \* the Map convState: chat id -> entry (NoConv when absent)
    hs,             \* the webhook handlers in flight: slot -> handler record
    updates,        \* history: the number of updates received so far
    lastLink        \* history: user id -> token of the latest storeBotLink
                    \* that returned true (NullToken: none)

storeVars == <<botLinks, sessions, dbConnected, connPc, storeUp, now>>
apiVars == <<nextSid, lpc, luser, resp, issued, loggedOut>>
pipelineVars == <<ffmpegPath, unlinks, upc, ureq, disk, originalPath, finalFilePath,
                  uUser, uToken, cv, result, execLog, fsLog, sent, uresp>>
uploadVars == <<staged, pipelineVars>>
botVars == <<convState, hs, updates, lastLink>>
vars == <<storeVars, apiVars, uploadVars, botVars>>

(***************************************************************************)
(* Bounds of the model                                                     *)
(***************************************************************************)
MaxTime == 4        \* the clock runs 0..MaxTime
MaxSessions == 2    \* logins that create a session
MaxHandlers == 2    \* bot updates being handled at the same time
MaxUpdates == 3     \* bot updates received in one run
MaxUploads == 2     \* uploads whose file names are in use at the same time

(***************************************************************************)
(* Program constants                                                       *)
(***************************************************************************)
SESSION_TTL == 2    \* 7 * 86400 * 1000 ms, in half-weeks
MB == 1048576       \* 1024 * 1024
MaxSizeMB == 9      \* compressVideo(originalPath, 9)
FileSizeLimitMB == 200

NullUser == << >>
NullToken == << >>
NoPath == "null"
NoSession == 0

DigitChars == {"0", "1", "2", "3", "4", "5", "6", "7", "8", "9"}

\* /^\d+$/.test(s)
IsDigitString(s) == Len(s) > 0 /\ \A i \in 1..Len(s) : s[i] \in DigitChars

\* !user_id
Falsy(s) == s = << >>

User1 == <<"1">>
User2 == <<"2">>
UserIdInputs == {<< >>, User1, User2, <<"1", "a">>, <<"a">>}
T1 == <<"T", "1">>
T2 == <<"T", "2">>
Tokens == {T1, T2}
CookieInputs == 0..(MaxSessions + 1)

(***************************************************************************)
(* Store helpers                                                           *)
(***************************************************************************)
\* A query issued now is answered (it does not throw).
QueryAnswers == storeUp

\* Some store helper called now would find the store unavailable.
StoreUnavailable == ~dbConnected \/ ~QueryAnswers

FindLink(userId) == {d \in botLinks : d.user_id = userId}

getBotTokenOfOther(userId) ==
    IF ~dbConnected \/ ~QueryAnswers THEN NullToken
    ELSE IF \E d \in botLinks : d.user_id # userId
         THEN (CHOOSE d \in botLinks : d.user_id # userId).bot_token
         ELSE NullToken

getBotToken(userId) ==
    IF ~dbConnected THEN NullToken
    ELSE IF ~QueryAnswers THEN NullToken
    ELSE IF FindLink(userId) = {} THEN NullToken
    ELSE (CHOOSE d \in FindLink(userId) : TRUE).bot_token

FindSessionOff(sessionId) ==
    {r \in sessions : r.session_id = sessionId /\ r.expires >= now}

FindSession(sessionId) ==
    {r \in sessions : r.session_id = sessionId /\ r.expires > now}

getSessionUser(sessionId) ==
    IF ~dbConnected THEN NullUser
    ELSE IF ~QueryAnswers THEN NullUser
    ELSE IF FindSession(sessionId) = {} THEN NullUser
    ELSE (CHOOSE r \in FindSession(sessionId) : TRUE).user_id

\* createSession: the id it returns (NoSession for null) ...
createSessionId == IF ~dbConnected \/ ~QueryAnswers THEN NoSession ELSE nextSid

NewSessionRow(userId) ==
    [session_id |-> nextSid, user_id |-> userId, expires |-> now + SESSION_TTL]

\* ... and the collection after it
createSessionRows(userId) ==
    IF createSessionId = NoSession THEN sessions
    ELSE sessions \cup {NewSessionRow(userId)}

\* deleteSession: the collection after deleteOne({session_id})
deleteSessionRowsOfUser(sessionId) ==
    IF ~dbConnected \/ ~QueryAnswers THEN sessions
    ELSE {r \in sessions :
            ~\E q \in sessions : q.session_id = sessionId /\ q.user_id = r.user_id}

deleteSessionRows(sessionId) ==
    IF ~dbConnected \/ ~QueryAnswers THEN sessions
    ELSE IF \E r \in sessions : r.session_id = sessionId
         THEN sessions \ {CHOOSE r \in sessions : r.session_id = sessionId}
         ELSE sessions

(***************************************************************************)
(* Environment: clock, database outages, TTL reaper; connectToMongoDB      *)
(***************************************************************************)
Tick ==
    /\ now < MaxTime
    /\ now' = now + 1
    /\ UNCHANGED <<botLinks, sessions, dbConnected, connPc, storeUp>>

StoreGoesDown ==
    /\ storeUp
    /\ storeUp' = FALSE
    /\ UNCHANGED <<botLinks, sessions, dbConnected, connPc, now>>

StoreComesUp ==
    /\ ~storeUp
    /\ storeUp' = TRUE
    /\ UNCHANGED <<botLinks, sessions, dbConnected, connPc, now>>

\* TTL index { expires: 1 }, expireAfterSeconds: 0
Reapable(r) == r.expires <= now

Reap ==
    /\ storeUp
    /\ \E r \in sessions :
        /\ Reapable(r)
        /\ sessions' = sessions \ {r}
    /\ UNCHANGED <<botLinks, dbConnected, connPc, storeUp, now>>

\* client.connect() of connectToMongoDB
Connect ==
    /\ connPc = "pending"
    /\ IF storeUp
       THEN dbConnected' = TRUE /\ connPc' = "indexing"
       ELSE dbConnected' = FALSE /\ connPc' = "pending"
    /\ UNCHANGED <<botLinks, sessions, storeUp, now>>

\* the createIndex calls of connectToMongoDB
CreateIndexes ==
    /\ connPc = "indexing"
    /\ IF storeUp
       THEN connPc' = "done" /\ UNCHANGED dbConnected
       ELSE dbConnected' = FALSE /\ connPc' = "pending"
    /\ UNCHANGED <<botLinks, sessions, storeUp, now>>

StoreEnv == StoreGoesDown \/ StoreComesUp \/ Connect \/ CreateIndexes

(***************************************************************************)
(* Login, check-session, logout                                            *)
(***************************************************************************)
NoResp ==
    [op |-> "none", status |-> 0, error |-> "", input |-> NullUser,
     cookie |-> NoSession, setCookie |-> NoSession, loggedIn |-> FALSE,
     userId |-> NullUser, unavail |-> FALSE, lookedUp |-> FALSE]

\* the two validation gates of /api/login; "ok" when both pass
LoginValidationLax(user_id) ==
    IF Falsy(user_id) THEN "User ID required" ELSE "ok"

LoginValidation(user_id) ==
    IF Falsy(user_id) THEN "User ID required"
    ELSE IF ~IsDigitString(user_id) THEN "User ID must contain only numbers"
    ELSE "ok"

\* if (!token) return res.status(401)
NotRegisteredNever(token) == FALSE

NotRegistered(token) == token = NullToken

\* POST /api/login up to the answer of getBotToken
LoginLookup ==
    /\ lpc = "idle"
    /\ nextSid <= MaxSessions
    /\ \E user_id \in UserIdInputs :
        IF LoginValidation(user_id) # "ok"
        THEN /\ resp' = [NoResp EXCEPT !.op = "login", !.status = 400,
                            !.error = LoginValidation(user_id),
                            !.input = user_id]
             /\ UNCHANGED <<lpc, luser>>
        ELSE IF NotRegistered(getBotToken(user_id))
        THEN /\ resp' = [NoResp EXCEPT !.op = "login", !.status = 401,
                            !.error = "User not registered. Please /add first.",
                            !.input = user_id,
                            !.unavail = StoreUnavailable,
                            !.lookedUp = TRUE]
             /\ UNCHANGED <<lpc, luser>>
        ELSE /\ lpc' = "create"
             /\ luser' = user_id
             /\ resp' = NoResp
    /\ UNCHANGED <<storeVars, nextSid, issued, loggedOut, uploadVars, botVars>>

\* POST /api/login from createSession to the response
LoginCreate ==
    /\ lpc = "create"
    /\ sessions' = createSessionRows(luser)
    /\ IF createSessionId = NoSession
       THEN /\ resp' = [NoResp EXCEPT !.op = "login", !.status = 500,
                           !.error = "Could not create session",
                           !.input = luser, !.unavail = TRUE,
                           !.lookedUp = TRUE]
            /\ UNCHANGED <<nextSid, issued>>
       ELSE /\ resp' = [NoResp EXCEPT !.op = "login", !.status = 200,
                           !.input = luser,
                           !.setCookie = createSessionId,
                           !.lookedUp = TRUE]
            /\ nextSid' = nextSid + 1
            /\ issued' = issued \cup {NewSessionRow(luser)}
    /\ lpc' = "idle"
    /\ luser' = NullUser
    /\ UNCHANGED <<botLinks, dbConnected, connPc, storeUp, now, loggedOut, uploadVars, botVars>>

\* loggedIn: !!userId
LoggedInNegated(userId) == userId = NullUser

LoggedIn(userId) == userId # NullUser

\* GET /api/check-session (part_000)
CheckSession ==
    /\ \E cookie \in CookieInputs :
        IF cookie = NoSession
        THEN resp' = [NoResp EXCEPT !.op = "check", !.status = 200]
        ELSE resp' = [NoResp EXCEPT !.op = "check", !.status = 200,
                         !.cookie = cookie,
                         !.loggedIn = LoggedIn(getSessionUser(cookie)),
                         !.userId = getSessionUser(cookie),
                         !.unavail = StoreUnavailable]
    /\ UNCHANGED <<storeVars, nextSid, lpc, luser, issued, loggedOut, uploadVars, botVars>>

\* POST /api/logout
Logout ==
    /\ \E cookie \in CookieInputs :
        /\ sessions' = IF cookie # NoSession THEN deleteSessionRows(cookie)
                       ELSE sessions
        /\ loggedOut' = IF \E r \in issued : r.session_id = cookie
                        THEN loggedOut \cup {cookie}
                        ELSE loggedOut
        /\ resp' = [NoResp EXCEPT !.op = "logout", !.status = 200,
                       !.cookie = cookie,
                       !.unavail = (cookie # NoSession /\ StoreUnavailable)]
    /\ UNCHANGED <<botLinks, dbConnected, connPc, storeUp, now, nextSid, lpc,
                   luser, issued, uploadVars, botVars>>

(***************************************************************************)
(* Upload: multer staging, the gates, compressVideo, sendTelegramVideo,    *)
(* cleanup and response                                                    *)
(***************************************************************************)
\* multer's filename(): `original-${unique}.mp4` in os.tmpdir()
StagedPath == "original-1.mp4"

\* inputPath.replace('original-', 'compressed-')
OutputPathOf(inputPath) ==
    IF inputPath = "original-1.mp4" THEN "compressed-1.mp4" ELSE inputPath

Paths == {StagedPath, OutputPathOf(StagedPath)}

Parts == {"none", "video", "other"}
VideoSizes == {MB, MaxSizeMB * MB, MaxSizeMB * MB + 1, FileSizeLimitMB * MB + 1}

NoUploadResp ==
    [status |-> 0, success |-> FALSE, error |-> "", metrics |-> FALSE,
     unavail |-> FALSE]

NoResult == [ok |-> FALSE, description |-> "", error |-> ""]
NoSend == [path |-> NoPath, content |-> "absent", token |-> NullToken,
           chat |-> NullUser]
\* parseInt / parseFloat of text that is not a number
NaN == -1

\* let duration = 60, in hundredths of a second
DefaultDuration == 6000

NotCompressed ==
    [ret |-> NoPath, probe |-> "none", encoder |-> "none",
     duration |-> DefaultDuration, bitrate |-> 0]

\* one field of the probe's output: a number, or text that is not one
Num(n) == [num |-> TRUE, val |-> n]
Text == [num |-> FALSE, val |-> 0]

\* what the probe command prints, split at ':' (<< >>: it prints nothing);
\* the seconds field is in hundredths
ProbeStdouts ==
    {<< >>, <<Text>>, <<Text, Text, Text>>,
     <<Num(0), Num(2), Num(0)>>, <<Num(0), Num(0), Num(3050)>>}

\* lines 313-319: the duration, in hundredths of a second
ParseDuration(durationStr) ==
    IF durationStr = << >> THEN DefaultDuration
    ELSE IF Len(durationStr) # 3 THEN DefaultDuration
    ELSE IF \E i \in 1..3 : ~durationStr[i].num THEN NaN
    ELSE durationStr[1].val * 360000 + durationStr[2].val * 6000
         + durationStr[3].val

ProbeClass(durationStr) ==
    IF durationStr = << >> \/ Len(durationStr) # 3 THEN "unparsed"
    ELSE IF ParseDuration(durationStr) = NaN THEN "nan"
    ELSE "parsed"

\* Math.floor(maxSizeMB * 8 * 1024 * 1024 / duration / 1000), in kbit/s,
\* for a duration in hundredths of a second
TargetBitrate(maxSizeMB, duration) ==
    IF duration = NaN THEN NaN
    ELSE (maxSizeMB * 8 * 1024 * 1024) \div (duration * 10)

(* The names of the temp files: multer's filename() and compressVideo's    *)
(* outputPath. A name is its prefix, the Date.now() and the uuid part.     *)

Uploads == 1..MaxUploads

\* Date.now() at the moment filename() runs, in milliseconds
Instants == {0, 1}

\* uuidv4().substring(0, 8)
Uuid8s == {"0a1b2c3d", "5e6f7a8b", "ffffffff"}

NoName == [prefix |-> "none", time |-> 0, uuid |-> "none"]
NoNames == [at |-> 0, uuid |-> "none", original |-> NoName, output |-> NoName]

\* `original-${Date.now()}-${uuidv4().substring(0, 8)}.mp4`
FileNameNoUuid(t, u) == [prefix |-> "original-", time |-> t, uuid |-> "00000000"]

FileName(t, u) == [prefix |-> "original-", time |-> t, uuid |-> u]

\* inputPath.replace('original-', 'compressed-')
OutputNameOf(name) ==
    [name EXCEPT !.prefix = IF @ = "original-" THEN "compressed-" ELSE @]

\* multer stages the file of upload i under a new name
StageFile(i) ==
    /\ staged[i] = NoNames
    /\ \E t \in Instants, u \in Uuid8s :
        staged' = [staged EXCEPT ![i] =
                      [at |-> t, uuid |-> u, original |-> FileName(t, u),
                       output |-> NoName]]
    /\ UNCHANGED <<storeVars, apiVars, botVars, pipelineVars>>

\* compressVideo derives the output path of upload i
NameOutput(i) ==
    /\ staged[i].original # NoName
    /\ staged[i].output = NoName
    /\ staged' = [staged EXCEPT ![i].output = OutputNameOf(staged[i].original)]
    /\ UNCHANGED <<storeVars, apiVars, botVars, pipelineVars>>

\* upload i is over; its names are out of use
ReleaseNames(i) ==
    /\ staged[i] # NoNames
    /\ staged' = [staged EXCEPT ![i] = NoNames]
    /\ UNCHANGED <<storeVars, apiVars, botVars, pipelineVars>>

\* fs.existsSync(p), also false for a null path
Exists(d, p) == p # NoPath /\ d[p] # "absent"

\* fs.unlinkSync(p), when it does not throw
Unlinked(d, p) == [d EXCEPT ![p] = "absent"]

NoRequest == [cookie |-> NoSession, part |-> "none", size |-> 0, at |-> 0]
EmptyDisk == [p \in Paths |-> "absent"]

UploadIdle ==
    /\ upc = "idle"
    /\ ureq = NoRequest
    /\ disk = EmptyDisk
    /\ originalPath = NoPath
    /\ finalFilePath = NoPath
    /\ uUser = NullUser
    /\ uToken = NullToken
    /\ cv = NotCompressed
    /\ result = NoResult
    /\ execLog = << >>
    /\ fsLog = << >>
    /\ sent = NoSend
    /\ uresp = NoUploadResp
    /\ unlinks = << >>
    /\ staged = [i \in Uploads |-> NoNames]

\* limits: { fileSize: 200 * 1024 * 1024 }
TooLarge(size) == size > FileSizeLimitMB * MB

\* upload.single('video') and, when it fails, the error middleware
UploadReceive ==
    /\ upc = "idle"
    /\ \E cookie \in CookieInputs, part \in Parts, size \in VideoSizes \cup {0} :
        /\ (part = "none") = (size = 0)
        /\ ureq' = [cookie |-> cookie, part |-> part, size |-> size, at |-> now]
        /\ IF part = "other"
           THEN \* fileFilter: cb(new Error(...)); not a MulterError -> 500
                /\ uresp' = [NoUploadResp EXCEPT !.status = 500,
                                !.error = "Only video files allowed"]
                /\ upc' = "done"
                /\ UNCHANGED disk
           ELSE IF part = "video" /\ TooLarge(size)
           THEN \* LIMIT_FILE_SIZE: multer removes what it wrote -> 400
                /\ uresp' = [NoUploadResp EXCEPT !.status = 400,
                                !.error = "File too large. Maximum size is 200MB."]
                /\ upc' = "done"
                /\ UNCHANGED disk
           ELSE /\ disk' = IF part = "video"
                           THEN [disk EXCEPT ![StagedPath] = "uploaded"]
                           ELSE disk
                /\ upc' = "session"
                /\ UNCHANGED uresp
    /\ UNCHANGED <<storeVars, apiVars, botVars, staged, ffmpegPath, unlinks, originalPath, finalFilePath,
                   uUser, uToken, cv, result, execLog, fsLog, sent>>

\* the cookie gate and the session gate
UploadSessionGate ==
    /\ upc = "session"
    /\ IF ureq.cookie = NoSession
       THEN /\ uresp' = [NoUploadResp EXCEPT !.status = 401,
                            !.error = "Not logged in"]
            /\ upc' = "done"
            /\ UNCHANGED uUser
       ELSE IF getSessionUser(ureq.cookie) = NullUser
       THEN /\ uresp' = [NoUploadResp EXCEPT !.status = 401,
                            !.error = "Invalid session",
                            !.unavail = StoreUnavailable]
            /\ upc' = "done"
            /\ UNCHANGED uUser
       ELSE /\ uUser' = getSessionUser(ureq.cookie)
            /\ upc' = "link"
            /\ UNCHANGED uresp
    /\ UNCHANGED <<storeVars, apiVars, botVars, staged, ffmpegPath, unlinks, ureq, disk, originalPath,
                   finalFilePath, uToken, cv, result, execLog, fsLog, sent>>

\* the link gate and the file gate; then originalPath = req.file.path
UploadLinkGate ==
    /\ upc = "link"
    /\ IF getBotToken(uUser) = NullToken
       THEN /\ uresp' = [NoUploadResp EXCEPT !.status = 400,
                            !.error = "Bot not linked. Please /add first.",
                            !.unavail = StoreUnavailable]
            /\ upc' = "done"
            /\ UNCHANGED <<uToken, originalPath>>
       ELSE IF ureq.part = "none"
       THEN /\ uresp' = [NoUploadResp EXCEPT !.status = 400,
                            !.error = "No video uploaded"]
            /\ upc' = "done"
            /\ UNCHANGED <<uToken, originalPath>>
       ELSE /\ uToken' = getBotToken(uUser)
            /\ originalPath' = StagedPath
            /\ upc' = "compress"
            /\ UNCHANGED uresp
    /\ UNCHANGED <<storeVars, apiVars, botVars, staged, ffmpegPath, unlinks, ureq, disk, finalFilePath,
                   uUser, cv, result, execLog, fsLog, sent>>

\* inputSizeMB <= maxSizeMB, with inputSizeMB = size / (1024 * 1024)
UnderTargetStrict(size) == size < MaxSizeMB * MB

UnderTarget(size) == size <= MaxSizeMB * MB

\* if (!FFMPEG_PATH) return inputPath
NoEncoderNever(path) == FALSE

NoEncoder(path) == ~path

\* compressVideo up to its first await
CompressStart ==
    /\ upc = "compress"
    /\ IF NoEncoder(ffmpegPath)
       THEN /\ cv' = [cv EXCEPT !.ret = originalPath]
            /\ finalFilePath' = originalPath
            /\ upc' = "send"
            /\ UNCHANGED uresp
       ELSE IF ~Exists(disk, originalPath)
       THEN \* statSync(inputPath) throws, outside compressVideo's try
            /\ uresp' = [uresp EXCEPT !.error = "ENOENT"]
            /\ upc' = "catch"
            /\ UNCHANGED <<cv, finalFilePath>>
       ELSE IF UnderTarget(ureq.size)
       THEN /\ cv' = [cv EXCEPT !.ret = originalPath]
            /\ finalFilePath' = originalPath
            /\ upc' = "send"
            /\ UNCHANGED uresp
       ELSE /\ upc' = "probe"
            /\ UNCHANGED <<cv, finalFilePath, uresp>>
    /\ UNCHANGED <<storeVars, apiVars, botVars, staged, ffmpegPath, unlinks, ureq, disk, originalPath,
                   uUser, uToken, result, execLog, fsLog, sent>>

\* the duration probe: execPromise(durationCmd)
Probe ==
    /\ upc = "probe"
    /\ \E failed \in BOOLEAN, durationStr \in ProbeStdouts :
        /\ failed => durationStr = << >>
        /\ execLog' = Append(execLog, "probe")
        /\ IF failed
           THEN \* execPromise rejects; caught: return inputPath
                /\ cv' = [cv EXCEPT !.ret = originalPath, !.probe = "error"]
                /\ finalFilePath' = originalPath
                /\ upc' = "send"
           ELSE /\ cv' = [cv EXCEPT !.probe = ProbeClass(durationStr),
                             !.duration = ParseDuration(durationStr)]
                /\ upc' = "encode"
                /\ UNCHANGED finalFilePath
    /\ UNCHANGED <<storeVars, apiVars, botVars, staged, ffmpegPath, unlinks, ureq, disk, originalPath,
                   uUser, uToken, result, fsLog, sent, uresp>>

\* what compressVideo returns after the encoder ran
CompressReturnsOutput(inputPath, encoder, unlinkOk) == OutputPathOf(inputPath)

CompressReturns(inputPath, encoder, unlinkOk) ==
    IF encoder = "ok" /\ unlinkOk THEN OutputPathOf(inputPath) ELSE inputPath

\* execPromise(command), statSync(outputPath), unlinkSync(inputPath), return
Encode ==
    /\ upc = "encode"
    /\ \E encoder \in {"ok", "fail", "fail_partial"}, unlinkOk \in BOOLEAN :
        /\ encoder # "ok" => unlinkOk
        \* "-b:v NaNk" is not a bitrate: the encoder exits with an error
        /\ TargetBitrate(MaxSizeMB, cv.duration) = NaN => encoder = "fail"
        /\ execLog' = Append(execLog, "encode")
        /\ unlinks' = IF encoder = "ok"
                       THEN Append(unlinks,
                                [path |-> originalPath,
                                 existed |-> Exists(disk, originalPath),
                                 ok |-> unlinkOk])
                       ELSE unlinks
        /\ disk' = [p \in Paths |->
                      IF p = OutputPathOf(originalPath) /\ encoder = "ok"
                          THEN "encoded"
                      ELSE IF p = OutputPathOf(originalPath) /\ encoder = "fail_partial"
                          THEN "partial"
                      ELSE IF p = originalPath /\ encoder = "ok" /\ unlinkOk
                          THEN "absent"
                      ELSE disk[p]]
        /\ fsLog' = fsLog
                    \o (IF encoder = "fail" THEN << >> ELSE <<"create output">>)
                    \o (IF encoder = "ok" /\ unlinkOk THEN <<"delete input">>
                        ELSE << >>)
        /\ cv' = [cv EXCEPT !.encoder = encoder,
                     !.bitrate = TargetBitrate(MaxSizeMB, cv.duration),
                     !.ret = CompressReturns(originalPath, encoder, unlinkOk)]
        /\ finalFilePath' = CompressReturns(originalPath, encoder, unlinkOk)
        /\ upc' = "send"
    /\ UNCHANGED <<storeVars, apiVars, botVars, staged, ffmpegPath, ureq, originalPath, uUser,
                   uToken, result, sent, uresp>>

\* sendTelegramVideo(botToken, userId, finalFilePath, caption)
SendVideo ==
    /\ upc = "send"
    /\ sent' = [path |-> finalFilePath, content |-> disk[finalFilePath],
                token |-> uToken, chat |-> uUser]
    /\ \E outcome \in {"ok", "rejected", "transport"} :
        result' =
            IF ~Exists(disk, finalFilePath)
                THEN [ok |-> FALSE, description |-> "", error |-> "ENOENT"]
            ELSE IF outcome = "ok"
                THEN [ok |-> TRUE, description |-> "", error |-> ""]
            ELSE IF outcome = "rejected"
                THEN [ok |-> FALSE, description |-> "Bad Request", error |-> ""]
            ELSE [ok |-> FALSE, description |-> "", error |-> "timeout"]
    /\ upc' = "finish"
    /\ UNCHANGED <<storeVars, apiVars, botVars, staged, ffmpegPath, unlinks, ureq, disk, originalPath,
                   finalFilePath, uUser, uToken, cv, execLog, fsLog, uresp>>

\* Step 3 of the handler: the file Step 3 removes (NoPath when none)
CleanupTargetNone(d) == NoPath

CleanupTarget(d) == IF Exists(d, finalFilePath) THEN finalFilePath ELSE NoPath

\* result.description || 'Failed to send video'
FailureText(r) == IF r.description # "" THEN r.description ELSE "Failed to send video"

\* the handler from Step 3 up to the response or the throw
Finish ==
    /\ upc = "finish"
    /\ \E unlinkOk \in BOOLEAN :
        /\ CleanupTarget(disk) = NoPath => unlinkOk
        /\ unlinks' = IF CleanupTarget(disk) = NoPath THEN unlinks
                       ELSE Append(unlinks,
                                [path |-> CleanupTarget(disk),
                                 existed |-> Exists(disk, CleanupTarget(disk)),
                                 ok |-> unlinkOk])
        /\ IF ~unlinkOk
           THEN \* unlinkSync throws
                /\ uresp' = [uresp EXCEPT !.error = "EPERM"]
                /\ upc' = "catch"
                /\ UNCHANGED disk
           ELSE /\ disk' = IF CleanupTarget(disk) = NoPath THEN disk
                           ELSE Unlinked(disk, CleanupTarget(disk))
                /\ IF ~result.ok
                   THEN /\ uresp' = [uresp EXCEPT !.error = FailureText(result)]
                        /\ upc' = "catch"
                   ELSE IF ~Exists(disk', finalFilePath)
                   THEN \* fs.statSync(finalFilePath) throws
                        /\ uresp' = [uresp EXCEPT !.error = "ENOENT"]
                        /\ upc' = "catch"
                   ELSE /\ uresp' = [uresp EXCEPT !.status = 200,
                                        !.success = TRUE, !.metrics = TRUE]
                        /\ upc' = "done"
    /\ UNCHANGED <<storeVars, apiVars, botVars, staged, ffmpegPath, ureq, originalPath,
                   finalFilePath, uUser, uToken, cv, result, execLog, fsLog, sent>>

\* the files the catch block unlinks, in order
CatchTargetsUnguarded(d) ==
    (IF originalPath # NoPath THEN <<originalPath>> ELSE << >>)
    \o (IF finalFilePath # NoPath /\ finalFilePath # originalPath
        THEN <<finalFilePath>> ELSE << >>)

CatchTargets(d) ==
    (IF Exists(d, originalPath) THEN <<originalPath>> ELSE << >>)
    \o (IF finalFilePath # originalPath /\ Exists(d, finalFilePath)
        THEN <<finalFilePath>> ELSE << >>)

\* the catch block of the handler
Catch ==
    /\ upc = "catch"
    /\ \E failAt \in 0..Len(CatchTargets(disk)) :
        \* failAt = 0: no unlink throws; else the failAt-th unlink throws
        /\ disk' = [p \in Paths |->
                      IF \E i \in 1..Len(CatchTargets(disk)) :
                            /\ CatchTargets(disk)[i] = p
                            /\ (failAt = 0 \/ i < failAt)
                      THEN "absent" ELSE disk[p]]
        /\ unlinks' = unlinks \o
                [i \in 1..(IF failAt = 0 THEN Len(CatchTargets(disk)) ELSE failAt) |->
                    [path |-> CatchTargets(disk)[i],
                     existed |-> Exists(disk, CatchTargets(disk)[i]),
                     ok |-> (failAt = 0 \/ i < failAt)]]
        /\ IF failAt = 0
           THEN /\ uresp' = [uresp EXCEPT !.status = 500, !.success = FALSE]
                /\ upc' = "done"
           ELSE \* the rejection escapes the handler: no response is sent
                /\ upc' = "noresponse"
                /\ UNCHANGED uresp
    /\ UNCHANGED <<storeVars, apiVars, botVars, staged, ffmpegPath, ureq, originalPath,
                   finalFilePath, uUser, uToken, cv, result, execLog, fsLog, sent>>

\* the next request (its files get fresh names)
UploadReset ==
    /\ upc \in {"done", "noresponse"}
    /\ upc' = "idle"
    /\ ureq' = NoRequest
    /\ disk' = EmptyDisk
    /\ originalPath' = NoPath
    /\ finalFilePath' = NoPath
    /\ uUser' = NullUser
    /\ uToken' = NullToken
    /\ cv' = NotCompressed
    /\ result' = NoResult
    /\ execLog' = << >>
    /\ fsLog' = << >>
    /\ sent' = NoSend
    /\ uresp' = NoUploadResp
    /\ unlinks' = << >>
    /\ UNCHANGED <<storeVars, apiVars, botVars, staged, ffmpegPath>>

(***************************************************************************)
(* The bots: the /add conversation of POST /main, and POST /webhook/:token *)
(***************************************************************************)
Handlers == 1..MaxHandlers
Chats == {1, 2}

\* message.chat.id.toString()
ChatIdToString(c) == IF c = 1 THEN User1 ELSE IF c = 2 THEN User2 ELSE << >>

Whitespace == {" "}

RECURSIVE TrimLeft(_)
TrimLeft(s) ==
    IF s # << >> /\ Head(s) \in Whitespace THEN TrimLeft(Tail(s)) ELSE s

RECURSIVE TrimRight(_)
TrimRight(s) ==
    IF s # << >> /\ s[Len(s)] \in Whitespace
    THEN TrimRight(SubSeq(s, 1, Len(s) - 1))
    ELSE s

\* text.trim()
Trim(s) == TrimRight(TrimLeft(s))

StartCmd == <<"/", "s", "t", "a", "r", "t">>
AddCmd == <<"/", "a", "d", "d">>

\* message.text || '' of the updates the model sends
TextInputs ==
    {StartCmd, AddCmd, <<" ">> \o T2 \o <<" ">>, <<" ">> \o User1,
     <<"1", "a">>, << >>}

\* an update with a message, without one, or with a message that has no chat
UpdateKinds == {"message", "nomessage", "nochat"}

\* the tokens Telegram knows
ValidTokens == Tokens

\* :token of the linked-bot webhook
WebhookTokens == Tokens

\* the chat that writes to the linked bots: the owner of T1, a stranger to T2
WebhookChats == {1}

\* no entry in convState
NoConv == [step |-> "idle", botToken |-> NullToken]

\* A free handler slot.  The fields: the position (pc), the route, the chat
\* id of the update (0 when it has none), the branch the handler took, its
\* locals state, botToken and userId, what the probe, storeBotLink and setWebhook
\* answered, whether convState.delete follows the reply (del), whether an
\* exception reached the handler's catch (threw), and as history the
\* handler's effects in order (log), whether no other /main handler of the
\* same chat was in flight during its run (alone), whether a '/add' of the
\* same chat was handled during its run (reset), the chat's conversation
\* entry at the moment the handler completed (endConv), and for the linked
\* bots' webhook the recipients of its messages (to), the owners of the token
\* at the lookup (owners) and whether the lookup was answered (answered).
NoHandler ==
    [pc |-> "idle", route |-> "none", chat |-> 0, branch |-> "none",
     state |-> NoConv, botToken |-> NullToken, userId |-> NullUser, probe |-> "none",
     stored |-> "none", setOk |-> "none", del |-> FALSE, threw |-> FALSE,
     log |-> << >>, alone |-> TRUE, endConv |-> NoConv,
     to |-> << >>, owners |-> {}, answered |-> FALSE, reset |-> FALSE]

\* the user ids that own a record of the Link Store
LinkUsers == {User1, User2}

\* the token each user's record holds (NullToken: no record)
LastLinkOf(links) ==
    [u \in LinkUsers |->
        IF \E d \in links : d.user_id = u
        THEN (CHOOSE d \in links : d.user_id = u).bot_token
        ELSE NullToken]

BotIdle ==
    /\ convState = [c \in Chats |-> NoConv]
    /\ hs = [h \in Handlers |-> NoHandler]
    /\ updates = 0
    /\ lastLink = LastLinkOf(botLinks)

\* the slot the next update is served in
\* A completed handler returns before anything else happens in the bots: its
\* "done" record is the observation of the instant it completed.
NoneDone == \A o \in Handlers : hs[o].pc # "done"

FreeSlot(h) ==
    /\ NoneDone
    /\ updates < MaxUpdates
    /\ hs[h].pc = "idle"
    /\ \A o \in Handlers : o < h => hs[o].pc # "idle"

\* res.send('OK'), the first statement of both handlers
StartLogMute == << >>

StartLog == <<"ack">>

\* convState.set(chatId, { step: 'awaiting_token' })
StateAfterAddKeeping(state) == [state EXCEPT !.step = "awaiting_token"]

StateAfterAdd(state) == [step |-> "awaiting_token", botToken |-> NullToken]

\* the answers axios.get(.../getMe) can give for a candidate token
ProbeOutcomes(botToken) ==
    IF botToken \in ValidTokens THEN {"ok", "error"} ELSE {"notok", "error"}

\* the try block of the awaiting_token step runs to its end
ProbeAcceptsAny(outcome) == TRUE

ProbeAcceptsNone(outcome) == FALSE

ProbeAcceptsNotOk(outcome) == outcome # "error"

ProbeAccepts(outcome) == outcome = "ok"

\* /^\d+$/.test(userId) in the awaiting_userid step
UserIdAcceptedLax(userId) == \A i \in 1..Len(userId) : userId[i] \in DigitChars

UserIdAccepted(userId) == IsDigitString(userId)

\* if (!stored) { ...; return }: where the awaiting_userid step goes after
\* storeBotLink
AfterStoreAlwaysWebhook(stored) == "webhook"

AfterStore(stored) == IF stored THEN "webhook" ELSE "send"

\* updateOne({ user_id }, { $set: { user_id, bot_token, ... } }, { upsert: true })
UpsertAdding(links, userId, botToken) ==
    links \cup {[user_id |-> userId, bot_token |-> botToken]}

UpsertKeepingFirst(links, userId, botToken) ==
    IF \E d \in links : d.user_id = userId THEN links
    ELSE links \cup {[user_id |-> userId, bot_token |-> botToken]}

Upsert(links, userId, botToken) ==
    {d \in links : d.user_id # userId}
        \cup {[user_id |-> userId, bot_token |-> botToken]}

FindByToken(botToken) == {d \in botLinks : d.bot_token = botToken}

\* getUserIdByToken: the values it can return (findOne picks one match)
\* history: the users whose record holds botToken when the lookup is made
OwnersOf(botToken) == {d.user_id : d \in FindByToken(botToken)}

\* the findOne({ bot_token }) of getUserIdByToken and what is made of its
\* answer: the user ids the call can return
FindOneByToken(botToken) ==
    IF ~QueryAnswers THEN {NullUser}
    ELSE IF FindByToken(botToken) = {} THEN {NullUser}
    ELSE {d.user_id : d \in FindByToken(botToken)}

getUserIdByToken(botToken) ==
    IF ~dbConnected THEN {NullUser} ELSE FindOneByToken(botToken)

\* convState.delete(chatId) after the reply of the awaiting_userid step
ClearsAfterWebhookOnlyOk(setOk) == setOk

ClearsAfterWebhook(setOk) == TRUE

\* other /main handlers for the same chat that have not completed
InFlightFor(h, chat) ==
    {o \in Handlers \ {h} :
        /\ hs[o].route = "main"
        /\ hs[o].chat = chat
        /\ hs[o].pc \notin {"idle", "done"}}

\* the handler record with its completion recorded
Completed(rec, conv) ==
    [rec EXCEPT !.pc = "done",
                !.endConv = IF rec.chat \in Chats THEN conv[rec.chat] ELSE NoConv]

\* POST /main from res.send('OK') to its first await (or its return)
MainEntry(base, kind, text, state, conv) ==
    IF kind = "nomessage" THEN Completed(base, conv)
    ELSE IF kind = "nochat"
        THEN \* message.chat.id throws; the catch logs it
             Completed([base EXCEPT !.threw = TRUE], conv)
    ELSE IF text = StartCmd THEN [base EXCEPT !.pc = "send", !.branch = "start"]
    ELSE IF text = AddCmd
        THEN [base EXCEPT !.pc = "send", !.branch = "add",
                          !.log = Append(base.log, "conv")]
    ELSE IF state.step = "awaiting_token"
        THEN [base EXCEPT !.pc = "getMe", !.branch = "token",
                          !.botToken = Trim(text)]
    ELSE IF state.step = "awaiting_userid"
        THEN IF ~UserIdAccepted(Trim(text))
             THEN [base EXCEPT !.pc = "send", !.branch = "userid",
                               !.userId = Trim(text),
                               !.botToken = state.botToken]
             ELSE IF ~dbConnected
             THEN \* storeBotLink returns false at once
                  [base EXCEPT !.pc = AfterStore(FALSE), !.branch = "userid",
                               !.userId = Trim(text),
                               !.botToken = state.botToken,
                               !.stored = "no", !.del = TRUE]
             ELSE [base EXCEPT !.pc = "store", !.branch = "userid",
                               !.userId = Trim(text),
                               !.botToken = state.botToken]
    ELSE [base EXCEPT !.pc = "send", !.branch = "default"]

MainReceive(h) ==
    /\ FreeSlot(h)
    /\ \E kind \in UpdateKinds, chat \in Chats, text \in TextInputs :
        /\ kind # "message" => (chat = 1 /\ text = << >>)
        /\ LET state == convState[chat]
               base == [NoHandler EXCEPT
                           !.route = "main",
                           !.chat = IF kind = "message" THEN chat ELSE 0,
                           !.state = IF kind = "message" THEN state ELSE NoConv,
                           !.log = StartLog,
                           !.alone = (kind # "message"
                                        \/ InFlightFor(h, chat) = {})]
           IN /\ convState' = IF kind = "message" /\ text = AddCmd
                              THEN [convState EXCEPT ![chat] = StateAfterAdd(state)]
                              ELSE convState
              /\ hs' = [o \in Handlers |->
                          IF o = h
                          THEN MainEntry(base, kind, text, state, convState')
                          ELSE IF kind = "message" /\ o \in InFlightFor(h, chat)
                          THEN [hs[o] EXCEPT !.alone = FALSE,
                                             !.reset = (@ \/ text = AddCmd)]
                          ELSE hs[o]]
    /\ updates' = updates + 1
    /\ UNCHANGED <<storeVars, apiVars, uploadVars, lastLink>>

\* the awaiting_token step from the answer of getMe to its next await
MainGetMe(h) ==
    /\ NoneDone
    /\ hs[h].pc = "getMe"
    /\ \E outcome \in ProbeOutcomes(hs[h].botToken) :
        IF ProbeAccepts(outcome)
        THEN /\ convState' = [convState EXCEPT ![hs[h].chat] =
                                 [step |-> "awaiting_userid",
                                  botToken |-> hs[h].botToken]]
             /\ hs' = [hs EXCEPT ![h] =
                          [@ EXCEPT !.pc = "send", !.probe = outcome,
                                    !.log = @ \o <<"getMe", "conv">>]]
        ELSE /\ hs' = [hs EXCEPT ![h] =
                          [@ EXCEPT !.pc = "send", !.probe = outcome,
                                    !.del = TRUE, !.log = Append(@, "getMe")]]
             /\ UNCHANGED convState
    /\ UNCHANGED <<storeVars, apiVars, uploadVars, updates, lastLink>>

\* the awaiting_userid step from the answer of storeBotLink's updateOne
MainStore(h) ==
    /\ NoneDone
    /\ hs[h].pc = "store"
    /\ IF QueryAnswers
       THEN /\ botLinks' = Upsert(botLinks, hs[h].userId, hs[h].botToken)
            /\ lastLink' = [u \in LinkUsers |->
                               IF u = hs[h].userId THEN hs[h].botToken
                               ELSE lastLink[u]]
            /\ hs' = [hs EXCEPT ![h] =
                         [@ EXCEPT !.pc = AfterStore(TRUE), !.stored = "yes",
                                   !.log = Append(@, "store")]]
       ELSE /\ hs' = [hs EXCEPT ![h] =
                         [@ EXCEPT !.pc = AfterStore(FALSE), !.stored = "no",
                                   !.del = TRUE, !.log = Append(@, "store")]]
            /\ UNCHANGED <<botLinks, lastLink>>
    /\ UNCHANGED <<sessions, dbConnected, connPc, storeUp, now, apiVars,
                   uploadVars, convState, updates>>

\* the awaiting_userid step from the answer of setWebhook
MainWebhook(h) ==
    /\ NoneDone
    /\ hs[h].pc = "webhook"
    /\ \E setOk \in BOOLEAN :
        hs' = [hs EXCEPT ![h] =
                  [@ EXCEPT !.pc = "send",
                            !.setOk = IF setOk THEN "yes" ELSE "no",
                            !.del = ClearsAfterWebhook(setOk),
                            !.log = Append(@, "setWebhook")]]
    /\ UNCHANGED <<storeVars, apiVars, uploadVars, convState, updates, lastLink>>

\* the reply (sendTelegramMessage never throws) and what follows it
MainSend(h) ==
    /\ NoneDone
    /\ hs[h].pc = "send"
    /\ hs[h].route = "main"
    /\ convState' = IF hs[h].del THEN [convState EXCEPT ![hs[h].chat] = NoConv]
                    ELSE convState
    /\ hs' = [hs EXCEPT ![h] =
                 Completed([@ EXCEPT !.log = IF hs[h].del
                                              THEN @ \o <<"send", "conv">>
                                              ELSE Append(@, "send")],
                           convState')]
    /\ UNCHANGED <<storeVars, apiVars, uploadVars, updates, lastLink>>

\* POST /webhook/:token from res.send('OK') to the await of getUserIdByToken
WebhookReceive(h) ==
    /\ FreeSlot(h)
    /\ \E kind \in UpdateKinds, chat \in WebhookChats, token \in WebhookTokens,
          start \in BOOLEAN :
        /\ kind # "message" => chat = 1
        /\ kind = "nomessage" => ~start
        \* one bot stands for all messages other than '/start'
        /\ ~start => token = T1
        /\ LET base == [NoHandler EXCEPT
                           !.route = "webhook",
                           !.chat = IF kind = "message" THEN chat ELSE 0,
                           !.branch = IF start THEN "wstart" ELSE "wother",
                           !.botToken = token,
                           !.log = StartLog]
           IN hs' = [hs EXCEPT ![h] =
                        IF kind = "nomessage"
                        THEN Completed([base EXCEPT !.branch = "none"], convState)
                        ELSE IF ~dbConnected
                        THEN Completed([base EXCEPT !.owners = OwnersOf(token)],
                                       convState)
                        ELSE [base EXCEPT !.pc = "lookup"]]
    /\ updates' = updates + 1
    /\ UNCHANGED <<storeVars, apiVars, uploadVars, convState, lastLink>>

\* the answer of getUserIdByToken, up to the first sendTelegramMessage
WebhookLookup(h) ==
    /\ NoneDone
    /\ hs[h].pc = "lookup"
    /\ \E userId \in FindOneByToken(hs[h].botToken) :
        hs' = [hs EXCEPT ![h] =
                  IF userId = NullUser \/ hs[h].branch # "wstart"
                  THEN Completed([@ EXCEPT !.userId = userId,
                                           !.owners = OwnersOf(hs[h].botToken),
                                           !.answered = QueryAnswers,
                                           !.log = Append(@, "store")],
                                 convState)
                  ELSE [@ EXCEPT !.pc = "wsend1", !.userId = userId,
                                 !.owners = OwnersOf(hs[h].botToken),
                                 !.answered = QueryAnswers,
                                 !.log = Append(@, "store")]]
    /\ UNCHANGED <<storeVars, apiVars, uploadVars, convState, updates, lastLink>>

\* message.chat.id.toString() !== userId
NotifiesSenderAlways(chat, userId) == TRUE

NotifiesSender(chat, userId) == ChatIdToString(chat) # userId

\* 'Your bot is active and ready!' sent to the owner
WebhookSend1(h) ==
    /\ NoneDone
    /\ hs[h].pc = "wsend1"
    /\ hs' = [hs EXCEPT ![h] =
                 IF hs[h].chat = 0
                 THEN \* message.chat.id throws; the catch logs it
                      Completed([@ EXCEPT !.threw = TRUE,
                                          !.to = Append(@, hs[h].userId),
                                          !.log = Append(@, "send")],
                                convState)
                 ELSE IF NotifiesSender(hs[h].chat, hs[h].userId)
                 THEN [@ EXCEPT !.pc = "wsend2",
                                !.to = Append(@, hs[h].userId),
                                !.log = Append(@, "send")]
                 ELSE Completed([@ EXCEPT !.to = Append(@, hs[h].userId),
                                          !.log = Append(@, "send")],
                                convState)]
    /\ UNCHANGED <<storeVars, apiVars, uploadVars, convState, updates, lastLink>>

\* the notice sent to a sender who is not the owner
WebhookSend2(h) ==
    /\ NoneDone
    /\ hs[h].pc = "wsend2"
    /\ hs' = [hs EXCEPT ![h] =
                 Completed([@ EXCEPT !.to = Append(@, ChatIdToString(hs[h].chat)),
                                     !.log = Append(@, "send")],
                           convState)]
    /\ UNCHANGED <<storeVars, apiVars, uploadVars, convState, updates, lastLink>>

\* the handler has returned; its slot serves the next update
HandlerReturn(h) ==
    /\ hs[h].pc = "done"
    /\ hs' = [hs EXCEPT ![h] = NoHandler]
    /\ UNCHANGED <<storeVars, apiVars, uploadVars, convState, updates, lastLink>>

SessionInit ==
    /\ botLinks = {[user_id |-> User1, bot_token |-> T1]}
    /\ sessions = {}
    /\ dbConnected = FALSE
    /\ connPc = "pending"
    /\ storeUp \in BOOLEAN
    /\ now = 0
    /\ nextSid = 1
    /\ lpc = "idle"
    /\ luser = NullUser
    /\ resp = NoResp
    /\ issued = {}
    /\ loggedOut = {}
    /\ ffmpegPath = TRUE
    /\ UploadIdle
    /\ BotIdle

SessionNext ==
    \/ (Tick /\ resp' = NoResp
             /\ UNCHANGED <<nextSid, lpc, luser, issued, loggedOut, uploadVars, botVars>>)
    \/ (StoreEnv /\ UNCHANGED <<apiVars, uploadVars, botVars>>)
    \/ (Reap /\ UNCHANGED <<apiVars, uploadVars, botVars>>)
    \/ LoginLookup
    \/ LoginCreate
    \/ CheckSession
    \/ Logout

SessionSpec == SessionInit /\ [][SessionNext]_vars

\* Sessions left in the store by earlier logins: one fresh, one about to expire
PreSessions ==
    {[session_id |-> 1, user_id |-> User1, expires |-> SESSION_TTL],
     [session_id |-> 2, user_id |-> User2, expires |-> 1]}

UploadInit ==
    /\ botLinks = {[user_id |-> User1, bot_token |-> T1],
                   [user_id |-> User2, bot_token |-> T2]}
    /\ sessions = PreSessions
    /\ dbConnected = FALSE
    /\ connPc = "pending"
    /\ storeUp = TRUE
    /\ now = 0
    /\ nextSid = MaxSessions + 1
    /\ lpc = "idle"
    /\ luser = NullUser
    /\ resp = NoResp
    /\ issued = {}
    /\ loggedOut = {}
    /\ ffmpegPath \in BOOLEAN
    /\ UploadIdle
    /\ BotIdle

UploadNext ==
    \/ (Tick /\ UNCHANGED <<apiVars, uploadVars, botVars>>)
    \/ (StoreEnv /\ UNCHANGED <<apiVars, uploadVars, botVars>>)
    \/ (Reap /\ UNCHANGED <<apiVars, uploadVars, botVars>>)
    \/ UploadReceive
    \/ UploadSessionGate
    \/ UploadLinkGate
    \/ CompressStart
    \/ Probe
    \/ Encode
    \/ SendVideo
    \/ Finish
    \/ Catch
    \/ UploadReset

UploadSpec == UploadInit /\ [][UploadNext]_vars

\* the Link Store when the model starts: two users linked their bots earlier
InitialLinks ==
    {[user_id |-> User1, bot_token |-> T1], [user_id |-> User2, bot_token |-> T2]}

BotInit ==
    /\ botLinks = InitialLinks
    /\ sessions = {}
    /\ dbConnected = FALSE
    /\ connPc = "pending"
    /\ storeUp \in BOOLEAN
    /\ now = 0
    /\ nextSid = 1
    /\ lpc = "idle"
    /\ luser = NullUser
    /\ resp = NoResp
    /\ issued = {}
    /\ loggedOut = {}
    /\ ffmpegPath = TRUE
    /\ UploadIdle
    /\ BotIdle

BotNext ==
    \/ (StoreEnv /\ UNCHANGED <<apiVars, uploadVars, botVars>>)
    \/ \E h \in Handlers : MainReceive(h)
    \/ \E h \in Handlers : MainGetMe(h)
    \/ \E h \in Handlers : MainStore(h)
    \/ \E h \in Handlers : MainWebhook(h)
    \/ \E h \in Handlers : MainSend(h)
    \/ \E h \in Handlers : WebhookReceive(h)
    \/ \E h \in Handlers : WebhookLookup(h)
    \/ \E h \in Handlers : WebhookSend1(h)
    \/ \E h \in Handlers : WebhookSend2(h)
    \/ \E h \in Handlers : HandlerReturn(h)

BotSpec == BotInit /\ [][BotNext]_vars

(* File naming: uploads in flight at the same time *)

NameInit == BotInit

NameNext ==
    \/ \E i \in Uploads : StageFile(i)
    \/ \E i \in Uploads : NameOutput(i)
    \/ \E i \in Uploads : ReleaseNames(i)

NameSpec == NameInit /\ [][NameNext]_vars

(***************************************************************************)
(* Session store and session API properties (checked under SessionSpec)    *)
(***************************************************************************)

C7_UnlinkedLoginRejected ==
    /\ (resp.op = "login" /\ IsDigitString(resp.input) /\ FindLink(resp.input) = {})
            => (resp.status = 401 /\ resp.setCookie = NoSession)
    /\ \A r \in sessions : FindLink(r.user_id) # {}
    /\ lpc = "create" => FindLink(luser) # {}

\* C7 witness: the store answered, found no link for "2", and login said 401.
C7_Witness ==
    /\ resp.op = "login"
    /\ resp.input = User2
    /\ ~resp.unavail
    /\ resp.status = 401
    /\ sessions # {}

C9_LogoutRevokes ==
    /\ resp.op = "logout" => resp.status = 200
    /\ \A s \in loggedOut : getSessionUser(s) = NullUser

\* C10: a login or an upload that consulted a store helper while the store
\* was unavailable (dbConnected false, or the query threw) is answered 500,
\* never 401 or 400: the helper's result told it "unavailable", not
\* "not found".
C10_UnavailableIs500 ==
    /\ (resp.op = "login" /\ resp.unavail) => resp.status = 500
    /\ (upc = "done" /\ uresp.unavail) => uresp.status = 500

\* C18: a login whose user_id is missing or is not a non-empty digit string
\* is answered 400 with no Link Store lookup and no cookie, and no such
\* user_id ever reaches createSession or a SessionRecord.
C18_BadUserIdIs400 ==
    /\ (resp.op = "login" /\ ~IsDigitString(resp.input))
            => /\ resp.status = 400
               /\ ~resp.lookedUp
               /\ resp.setCookie = NoSession
    /\ lpc = "create" => IsDigitString(luser)
    /\ \A r \in sessions : IsDigitString(r.user_id)

\* C18 witness: with a session already in the store, a login with "1a" was
\* answered 400 'User ID must contain only numbers' without a lookup.
C18_Witness ==
    /\ resp.op = "login"
    /\ resp.input = <<"1", "a">>
    /\ resp.status = 400
    /\ resp.error = "User ID must contain only numbers"
    /\ ~resp.lookedUp
    /\ sessions # {}

\* C39: a login adds a session row and removes none, and a logout removes
\* only the row of the session it names: every session that was issued, has
\* not been logged out itself and has not expired is still in the store and
\* resolves to its user, whatever other logins and logouts (of the same user
\* too) have happened.
C39_OtherSessionsKept ==
    \A r \in issued :
        (r.session_id \notin loggedOut /\ r.expires > now) =>
            /\ r \in sessions
            /\ ~StoreUnavailable => getSessionUser(r.session_id) = r.user_id

\* C39 witness: a user logged in twice and logged one of the two sessions
\* out; its row is gone, and the other session still resolves to the user.
C39_Witness ==
    \E r1, r2 \in issued :
        /\ r1.session_id # r2.session_id
        /\ r1.user_id = r2.user_id
        /\ r1.session_id \in loggedOut
        /\ r1 \notin sessions
        /\ r2.session_id \notin loggedOut
        /\ ~StoreUnavailable
        /\ getSessionUser(r2.session_id) = r2.user_id

\* C28: whenever the connection to the store fails or is lost, the process
\* keeps running and another connectToMongoDB call is pending (scheduled by
\* the fixed-delay timer, or still running and about to notice the failure).
C28_LossSchedulesReconnect ==
    ~storeUp => connPc \in {"pending", "indexing"}

(***************************************************************************)
(* Upload properties (checked under UploadSpec)                            *)
(***************************************************************************)

\* C1: once an upload request has been answered, whatever the outcome, none
\* of the files it created in the temp directory (the staged original-* file,
\* the compressed-* file) is still on disk.
C1_NoTempFileRemains ==
    upc = "done" => \A p \in Paths : disk[p] = "absent"

\* C2: an upload that passed every gate and whose delivery reported ok is
\* answered 200 with success=true and the size metrics (stated here for the
\* requests in which no unlink was refused by the file system).
C2_DeliveredOkIs200 ==
    (upc = "done" /\ sent.path # NoPath /\ result.ok /\ uresp.error # "EPERM")
        => (uresp.status = 200 /\ uresp.success /\ uresp.metrics)

\* C3: when the encoder invocation (the encode command, or the probe command
\* before it) fails, compressVideo returns the original
\* input path, that path (with the uploaded bytes) is what sendTelegramVideo
\* is handed, and the handler reaches its catch block or its response only
\* after the delivery attempt, never straight from the transcoding error.
C3_EncoderFailureFallsBack ==
    (cv.encoder \in {"fail", "fail_partial"} \/ cv.probe = "error") =>
        /\ cv.ret = originalPath
        /\ finalFilePath = originalPath
        /\ upc # "send" => (sent.path = originalPath /\ sent.content = "uploaded")
        /\ upc \in {"send", "finish", "catch", "done", "noresponse"}

\* C3 witness: the encoder failed after writing part of its output, and the
\* request was answered after the original file had been handed to Telegram.
C3_Witness ==
    /\ cv.encoder = "fail_partial"
    /\ upc = "done"
    /\ sent.path = StagedPath
    /\ sent.content = "uploaded"
    /\ result.description = "Bad Request"
    /\ uresp.error = "Bad Request"

\* C4: for a staged file of at most the target size, compressVideo runs no
\* external command and creates or deletes no file, it returns its input path,
\* and what is delivered is the staged file with the uploaded bytes.
C4_SmallFileUntouched ==
    (ureq.part = "video" /\ ureq.size <= MaxSizeMB * MB) =>
        /\ upc \notin {"probe", "encode"}
        /\ execLog = << >>
        /\ fsLog = << >>
        /\ cv.encoder = "none"
        /\ (upc = "send" \/ sent.path # NoPath)
                => (cv.ret = StagedPath /\ finalFilePath = StagedPath)
        /\ upc = "send" => disk = [EmptyDisk EXCEPT ![StagedPath] = "uploaded"]
        /\ sent.path # NoPath
                => (sent.path = StagedPath /\ sent.content = "uploaded")

\* C4 witness: a file of exactly the target size, with the encoder installed,
\* went through compressVideo and was delivered.
C4_Witness ==
    /\ ffmpegPath
    /\ ureq.part = "video"
    /\ ureq.size = MaxSizeMB * MB
    /\ upc = "finish"
    /\ result.ok
    /\ sent.path = StagedPath

\* the request's cookie names no session that was live when it arrived
NoLiveSession ==
    \/ ureq.cookie = NoSession
    \/ ~\E r \in sessions : r.session_id = ureq.cookie /\ r.expires > ureq.at

\* C5: an upload request without a session cookie, or whose cookie resolves
\* to no live session, is answered 401 ('Not logged in' when the cookie is
\* absent), and neither the transcoder nor the delivery client runs for it.
C5_NoSessionIs401 ==
    (upc = "done" /\ NoLiveSession) =>
        /\ uresp.status = 401
        /\ ureq.cookie = NoSession => uresp.error = "Not logged in"
        /\ execLog = << >>
        /\ cv = NotCompressed
        /\ sent = NoSend

\* C17: an upload whose file part is not video/* is answered 400, nothing of
\* it is in the temp directory, and neither the transcoder nor the delivery
\* client has run for it.
C17_WrongMimeIs400 ==
    (upc = "done" /\ ureq.part = "other") =>
        /\ uresp.status = 400
        /\ \A p \in Paths : disk[p] = "absent"
        /\ execLog = << >>
        /\ cv = NotCompressed
        /\ sent = NoSend

\* the failure description sendTelegramVideo obtained: Telegram's description,
\* or the transport error message
DeliveryFailure(r) == IF r.description # "" THEN r.description ELSE r.error

\* C19: an upload whose delivery attempt failed is answered 500 with
\* success=false and, as error text, the failure description the delivery
\* client obtained (stated here for the requests in which no unlink was
\* refused by the file system).
C19_DeliveryFailureVerbatim ==
    (upc = "done" /\ sent.path # NoPath /\ ~result.ok /\ uresp.error # "EPERM")
        => /\ uresp.status = 500
           /\ ~uresp.success
           /\ uresp.error = DeliveryFailure(result)

\* C20: when an unlink of the handler throws after the delivery attempt, a
\* response is still sent and it reports the delivery outcome: success when
\* delivery was ok, the delivery failure when it was not.
C20_UnlinkFailureKeepsOutcome ==
    (sent.path # NoPath /\ (upc = "noresponse"
                              \/ (upc = "done" /\ uresp.error = "EPERM")))
        => /\ upc = "done"
           /\ result.ok => (uresp.status = 200 /\ uresp.success)
           /\ ~result.ok => (uresp.status = 500
                              /\ uresp.error = FailureText(result))

\* C23: when no encoder was found at startup (FFMPEG_PATH is null),
\* compressVideo returns its input path, whatever the size of the file, runs
\* no external command (neither the probe nor the encoder) and creates or
\* deletes no file.
C23_NoEncoderNoWork ==
    ~ffmpegPath =>
        /\ upc \notin {"probe", "encode"}
        /\ execLog = << >>
        /\ fsLog = << >>
        /\ cv.probe = "none"
        /\ cv.encoder = "none"
        /\ (upc = "send" \/ sent.path # NoPath)
                => (cv.ret = originalPath /\ finalFilePath = originalPath)
        /\ upc = "send" => disk = [EmptyDisk EXCEPT ![StagedPath] = "uploaded"]

\* C23 witness: without an encoder, a file larger than the target went
\* through compressVideo and was handed to Telegram as it was uploaded.
C23_Witness ==
    /\ ~ffmpegPath
    /\ ureq.size > MaxSizeMB * MB
    /\ upc = "finish"
    /\ cv.ret = StagedPath
    /\ sent.path = StagedPath
    /\ sent.content = "uploaded"

\* the number of times the external command c ran for the request
Ran(c) == Cardinality({i \in 1..Len(execLog) : execLog[i] = c})

\* C24: for a file larger than the target whose duration could not be
\* obtained (the probe command fails, prints nothing, or prints text that is
\* not H:M:S), compressVideo computes the bitrate with 60 seconds and runs
\* the encoder exactly once; when the encoder succeeds, the original is
\* deleted and the compressed path is returned.
C24_NoDurationUses60 ==
    (cv.probe \in {"error", "unparsed", "nan"} /\ cv.ret # NoPath) =>
        /\ cv.duration = DefaultDuration
        /\ cv.bitrate = TargetBitrate(MaxSizeMB, DefaultDuration)
        /\ Ran("encode") = 1
        /\ (cv.encoder = "ok" /\ unlinks # << >> /\ unlinks[1].ok)
                => (cv.ret = OutputPathOf(originalPath)
                    /\ "delete input" \in {fsLog[i] : i \in 1..Len(fsLog)})

\* the bitrate of the specification: (T * 8 * 1024) / D kbit/s, rounded
\* down, for a duration in hundredths of a second
ClaimedBitrate(maxSizeMB, duration) == (maxSizeMB * 8 * 1024 * 100) \div duration

\* C25: for a target of T megabytes and a probed duration of D > 0 seconds,
\* the video bitrate handed to the encoder is floor((T * 8 * 1024) / D) kbit/s.
C25_BitrateAsClaimed ==
    (cv.probe = "parsed" /\ cv.encoder # "none") =>
        cv.bitrate = ClaimedBitrate(MaxSizeMB, cv.duration)

\* C26: the steps of an upload run in the order validate, stage, transcode,
\* deliver, clean up: no file of the request is in the temp directory while
\* its gates are still being tested or after one of them has refused it,
\* and nothing is delivered before compressVideo has returned.
C26_ValidateBeforeStage ==
    /\ upc \in {"session", "link"} => \A p \in Paths : disk[p] = "absent"
    /\ (upc = "done" /\ uresp.status \in {400, 401})
            => \A p \in Paths : disk[p] = "absent"
    /\ sent.path # NoPath => cv.ret # NoPath
    /\ unlinks # << >> => (cv.ret # NoPath /\ (sent.path # NoPath \/ upc = "send"))

\* C30: whichever step of the request throws, no temp file is unlinked
\* twice, and no unlink is attempted on a path that is no longer there.
C30_UnlinkOnceAndExisting ==
    /\ \A i \in 1..Len(unlinks) : unlinks[i].existed
    /\ \A i, j \in 1..Len(unlinks) :
            (i < j /\ unlinks[i].ok) => unlinks[j].path # unlinks[i].path

\* C30 witness: the encoder succeeded and compressVideo deleted the original,
\* Step 3 deleted the compressed file, the statSync after it threw, and the
\* catch block answered 500 without another unlink.
C30_Witness ==
    /\ upc = "done"
    /\ uresp.status = 500
    /\ result.ok
    /\ Len(unlinks) = 2
    /\ unlinks[1] = [path |-> StagedPath, existed |-> TRUE, ok |-> TRUE]
    /\ unlinks[2] = [path |-> OutputPathOf(StagedPath), existed |-> TRUE,
                     ok |-> TRUE]

\* C31: when an upload that passed all gates is answered, neither the staged
\* original nor the file compressVideo returned is on disk, whether
\* compression was skipped, succeeded or failed and whether delivery answered
\* ok, answered not ok, or timed out.
C31_AnsweredLeavesNoFile ==
    (upc = "done" /\ originalPath # NoPath) =>
        /\ ~Exists(disk, originalPath)
        /\ ~Exists(disk, cv.ret)
        /\ ~Exists(disk, finalFilePath)

\* C31 witness: the encoder succeeded, the compressed file was handed to
\* Telegram, the request timed out there, and the request was answered.
C31_Witness ==
    /\ upc = "done"
    /\ cv.encoder = "ok"
    /\ cv.ret = OutputPathOf(StagedPath)
    /\ sent.path = OutputPathOf(StagedPath)
    /\ result.error = "timeout"
    /\ uresp.status = 500
    /\ disk = EmptyDisk

\* the temp files of the request that are on disk
OnDisk == {p \in Paths : disk[p] # "absent"}

\* C32: when sendTelegramVideo is invoked, exactly one temp file of the
\* request is on disk, and it is the file at the path being sent, also when
\* the encoder failed after it had started to write its output.
C32_OneFileAtSend ==
    upc = "send" => OnDisk = {finalFilePath}

\* C37: every sendTelegramVideo call of an upload uses the token the Link
\* Store holds for the user the request's session belongs to, and that
\* user's id as chat id.
C37_DeliversToOwnBot ==
    sent.path # NoPath =>
        /\ \E r \in PreSessions :
                /\ r.session_id = ureq.cookie
                /\ r.expires > ureq.at
                /\ r.user_id = sent.chat
        /\ [user_id |-> sent.chat, bot_token |-> sent.token] \in botLinks

\* C37 witness: the session of user 2 uploaded, and the video went to chat 2
\* with the token of user 2.
C37_Witness ==
    /\ sent.path = StagedPath
    /\ ureq.cookie = 2
    /\ sent.chat = User2
    /\ sent.token = T2
    /\ result.ok

\* C38: every POST /api/upload is answered exactly once with a JSON body; no
\* path, a throwing file operation included, ends without a response.
C38_AlwaysAnswered ==
    upc # "noresponse"

(***************************************************************************)
(* Bot conversation properties (checked under BotSpec)                     *)
(***************************************************************************)

\* the /main handlers that have just completed for an update with a chat
MainDone == {h \in Handlers : hs[h].pc = "done" /\ hs[h].route = "main"
                                /\ hs[h].chat \in Chats}

\* the LinkRecord a handler's awaiting_userid step writes
LinkOf(rec) == [user_id |-> rec.userId, bot_token |-> rec.botToken]

\* the handler performed the effect e ("conv", "store", "setWebhook", ...)
Did(rec, e) == \E i \in 1..Len(rec.log) : rec.log[i] = e

\* C11 as stated: with the chat's messages handled one at a time, a text the
\* getMe probe accepts as T in awaiting_token leaves the chat in
\* awaiting_userid with pending token T, and a digit-only text U after it
\* leaves the record (U, T) as the Link Store's record for U and the chat idle.
C11_LinkPersisted_AsStated ==
    \A h \in MainDone :
        LET rec == hs[h] IN
        rec.alone =>
            /\ (rec.branch = "token" /\ rec.probe = "ok")
                => rec.endConv = [step |-> "awaiting_userid",
                                  botToken |-> rec.botToken]
            /\ (rec.branch = "userid" /\ IsDigitString(rec.userId))
                => (FindLink(rec.userId) = {LinkOf(rec)} /\ rec.endConv = NoConv)

\* C11 (amended): with the chat's messages handled one at a time, a text the
\* getMe probe accepts as T in awaiting_token leaves the chat in
\* awaiting_userid with pending token T; a digit-only text U after it leaves
\* the chat idle, and leaves (U, T) as the Link Store's record for U provided
\* storeBotLink returned true (the store was connected and its updateOne did
\* not throw).
C11_LinkPersisted ==
    \A h \in MainDone :
        LET rec == hs[h] IN
        rec.alone =>
            /\ (rec.branch = "token" /\ rec.probe = "ok")
                => rec.endConv = [step |-> "awaiting_userid",
                                  botToken |-> rec.botToken]
            /\ (rec.branch = "userid" /\ IsDigitString(rec.userId))
                => /\ rec.endConv = NoConv
                   /\ rec.stored \in {"yes", "no"}
                   /\ rec.stored = "yes" => FindLink(rec.userId) = {LinkOf(rec)}

\* C11 witness: the third update of a sequential conversation has completed:
\* user "1", who was linked to T1, is now linked to the probed token T2, and
\* the chat is idle.
C11_Witness ==
    \E h \in MainDone :
        /\ hs[h].alone
        /\ hs[h].branch = "userid"
        /\ hs[h].userId = User1
        /\ hs[h].state = [step |-> "awaiting_userid", botToken |-> T2]
        /\ hs[h].stored = "yes"
        /\ FindLink(User1) = {[user_id |-> User1, bot_token |-> T2]}
        /\ convState[hs[h].chat] = NoConv
        /\ updates = 3

\* C12: a text sent in awaiting_token for which the getMe probe fails (the
\* request errors, or the answer is not ok) leaves the chat without a
\* conversation entry when its handler completes, and the handler performs no
\* Link Store write and registers no webhook.
C12_FailedProbeResets ==
    \A h \in MainDone :
        (hs[h].branch = "token" /\ hs[h].probe \in {"notok", "error"})
            => /\ hs[h].endConv = NoConv
               /\ convState[hs[h].chat] = NoConv
               /\ ~Did(hs[h], "store")
               /\ ~Did(hs[h], "setWebhook")

\* C12 witness: after /add, a text that is no token was probed, Telegram
\* answered not ok, and the chat is idle again with the store as it was.
C12_Witness ==
    \E h \in MainDone :
        /\ hs[h].branch = "token"
        /\ hs[h].botToken = <<"1", "a">>
        /\ hs[h].probe = "notok"
        /\ hs[h].state.step = "awaiting_token"
        /\ convState[hs[h].chat] = NoConv
        /\ botLinks = InitialLinks

\* C13: with the chat's messages handled one at a time, whatever entry the
\* chat had when '/add' arrived, when the '/add' handler completes the entry is
\* exactly {step: awaiting_token}, with no pending token, and the handler has
\* performed no Link Store write.
C13_AddResets ==
    \A h \in MainDone :
        (hs[h].branch = "add" /\ hs[h].alone)
            => /\ hs[h].endConv = [step |-> "awaiting_token",
                                   botToken |-> NullToken]
               /\ ~Did(hs[h], "store")

\* C13 witness: '/add' arrived while the chat was in awaiting_userid with the
\* pending token T2, and its handler has completed.
C13_Witness ==
    \E h \in MainDone :
        /\ hs[h].branch = "add"
        /\ hs[h].alone
        /\ hs[h].state = [step |-> "awaiting_userid", botToken |-> T2]
        /\ convState[hs[h].chat].step = "awaiting_token"

\* the update found the chat in awaiting_userid and its text, trimmed, is not
\* a non-empty string of digits
NonDigitInUserIdStep(rec) ==
    /\ rec.state.step = "awaiting_userid"
    /\ \/ rec.branch \in {"start", "add"}
       \/ rec.branch = "userid" /\ ~IsDigitString(rec.userId)

\* C14 as stated: in awaiting_userid, a text that after trimming is not a
\* non-empty digit string changes nothing: the handler changes no
\* conversation entry, writes no LinkRecord and registers no webhook, and with
\* the chat's messages handled one at a time the chat's entry at completion is
\* the one the handler found.
C14_NonDigitKeepsState_AsStated ==
    \A h \in MainDone :
        NonDigitInUserIdStep(hs[h])
            => /\ ~Did(hs[h], "conv")
               /\ ~Did(hs[h], "store")
               /\ ~Did(hs[h], "setWebhook")
               /\ hs[h].alone => hs[h].endConv = hs[h].state

\* C14 (amended): in awaiting_userid, a text other than the command '/add'
\* that after trimming is not a non-empty digit string changes nothing: the
\* handler changes no conversation entry, writes no LinkRecord and registers
\* no webhook, and with the chat's messages handled one at a time the chat's
\* entry at completion is the one the handler found.
C14_NonDigitKeepsState ==
    \A h \in MainDone :
        (NonDigitInUserIdStep(hs[h]) /\ hs[h].branch # "add")
            => /\ ~Did(hs[h], "conv")
               /\ ~Did(hs[h], "store")
               /\ ~Did(hs[h], "setWebhook")
               /\ hs[h].alone => hs[h].endConv = hs[h].state

\* C14 witness: the text "1a" arrived in awaiting_userid with pending token
\* T2; the handler has completed and the chat still waits for the id for T2.
C14_Witness ==
    \E h \in MainDone :
        /\ hs[h].branch = "userid"
        /\ hs[h].userId = <<"1", "a">>
        /\ hs[h].alone
        /\ convState[hs[h].chat] = [step |-> "awaiting_userid", botToken |-> T2]
        /\ botLinks = InitialLinks

\* C15: once the awaiting_userid step has stored the link, the chat has no
\* conversation entry when the handler completes, whether setWebhook answered
\* ok or failed, and after a failed setWebhook the stored record is still the
\* Link Store's record for that user.
C15_WebhookFailureKeepsLink ==
    \A h \in Handlers :
        (hs[h].route = "main" /\ hs[h].stored = "yes")
            => /\ hs[h].pc = "done"
                    => (hs[h].setOk \in {"yes", "no"} /\ hs[h].endConv = NoConv
                        /\ convState[hs[h].chat] = NoConv)
               /\ hs[h].setOk = "no" => FindLink(hs[h].userId) = {LinkOf(hs[h])}

\* C15 witness: the link was stored, setWebhook failed, the handler has
\* completed: the chat is idle and the record is in the store.
C15_Witness ==
    \E h \in MainDone :
        /\ hs[h].stored = "yes"
        /\ hs[h].setOk = "no"
        /\ convState[hs[h].chat] = NoConv
        /\ LinkOf(hs[h]) \in botLinks
        /\ LinkOf(hs[h]) = [user_id |-> User1, bot_token |-> T2]

\* C16: in every handler of POST /main and POST /webhook/:token the 'OK'
\* acknowledgement is the first effect, before any conversation-state change,
\* store operation or Telegram call, it is sent exactly once, and a handler in
\* which later processing threw still completes with that acknowledgement.
C16_AckFirst ==
    \A h \in Handlers :
        hs[h].route # "none"
            => /\ hs[h].log # << >>
               /\ hs[h].log[1] = "ack"
               /\ \A i \in 2..Len(hs[h].log) : hs[h].log[i] # "ack"
               /\ hs[h].threw => hs[h].pc = "done"

\* C16 witness: a linked-bot webhook handler acknowledged, looked the owner
\* up, sent the confirmation, and then threw on a message without a chat.
C16_Witness ==
    \E h \in Handlers :
        /\ hs[h].route = "webhook"
        /\ hs[h].threw
        /\ hs[h].log = <<"ack", "store", "send">>

\* some linking conversation has just completed with a stored record
SomeLinked == \E h \in MainDone : hs[h].stored = "yes"

C22_TokenLookupInverts ==
    ~StoreUnavailable =>
        \A u \in LinkUsers :
            getBotToken(u) # NullToken
                => getUserIdByToken(getBotToken(u)) = {u}

\* the webhook handlers that completed a '/start' message of some chat
StartDone == {h \in Handlers : hs[h].pc = "done" /\ hs[h].route = "webhook"
                                 /\ hs[h].branch = "wstart"
                                 /\ hs[h].chat \in Chats}

\* what '/start' from chat sends when the token's owner is u
StartMessages(chat, u) ==
    <<u>> \o (IF ChatIdToString(chat) # u THEN <<ChatIdToString(chat)>>
              ELSE << >>)

PathsOf(i) == {staged[i].original, staged[i].output} \ {NoName}

\* C29 as stated: two uploads in flight at the same time have pairwise
\* distinct original-* and compressed-* paths, so that no step of one works
\* on a file of the other.
C29_DistinctPaths_AsStated ==
    \A i, j \in Uploads :
        i # j => PathsOf(i) \cap PathsOf(j) = {}

\* C29 (amended): the original-* and the compressed-* path of one upload
\* differ, and two uploads in flight at the same time have pairwise distinct
\* paths provided they were not staged in the same millisecond with the same
\* eight-digit uuid prefix; when both coincide, the two uploads use the same
\* paths.
C29_DistinctPaths ==
    /\ \A i \in Uploads :
            staged[i].output # NoName => staged[i].output # staged[i].original
    /\ \A i, j \in Uploads :
            (i # j /\ staged[i] # NoNames /\ staged[j] # NoNames) =>
                IF staged[i].at = staged[j].at /\ staged[i].uuid = staged[j].uuid
                THEN staged[i].original = staged[j].original
                ELSE PathsOf(i) \cap PathsOf(j) = {}

\* C29 witness: two uploads staged in the same millisecond with different
\* uuid prefixes, both with their compressed path derived.
C29_Witness ==
    /\ staged[1].at = staged[2].at
    /\ staged[1].uuid # staged[2].uuid
    /\ staged[1].output # NoName
    /\ staged[2].output # NoName
    /\ Cardinality(PathsOf(1) \cup PathsOf(2)) = 4

\* C33 as stated: with the chat's messages handled one at a time, every text
\* other than '/add' that arrives in awaiting_token is submitted to the getMe
\* probe, and when its handler completes the chat is in awaiting_userid (probe
\* ok) or idle (probe failed), never still in awaiting_token.
C33_TokenStepProbes_AsStated ==
    \A h \in MainDone :
        LET rec == hs[h] IN
        (rec.alone /\ rec.state.step = "awaiting_token" /\ rec.branch # "add")
            => /\ Did(rec, "getMe")
               /\ rec.endConv.step # "awaiting_token"

\* C33 (amended): with the chat's messages handled one at a time, every text
\* other than '/add' and '/start' that arrives in awaiting_token is submitted
\* (trimmed) to the getMe probe, and when its handler completes the chat is
\* in awaiting_userid with that token (probe ok) or idle (probe failed);
\* '/start' is answered with the welcome text, is not probed and leaves the
\* chat in awaiting_token.
C33_TokenStepProbes ==
    \A h \in MainDone :
        LET rec == hs[h] IN
        (rec.alone /\ rec.state.step = "awaiting_token") =>
            /\ rec.branch \in {"add", "start", "token"}
            /\ rec.branch = "token"
                => /\ Did(rec, "getMe")
                   /\ rec.endConv = IF rec.probe = "ok"
                                    THEN [step |-> "awaiting_userid",
                                          botToken |-> rec.botToken]
                                    ELSE NoConv
            /\ rec.branch = "start"
                => (~Did(rec, "getMe") /\ rec.endConv = rec.state)

\* C33 witness: a text sent in awaiting_token was probed, Telegram answered
\* ok, and the chat is in awaiting_userid with that token.
C33_Witness ==
    \E h \in MainDone :
        /\ hs[h].alone
        /\ hs[h].state.step = "awaiting_token"
        /\ hs[h].branch = "token"
        /\ hs[h].probe = "ok"
        /\ hs[h].endConv = [step |-> "awaiting_userid", botToken |-> T2]

\* the position of e in the handler's effects (0: not among them)
PosOf(rec, e) ==
    IF Did(rec, e) THEN CHOOSE i \in 1..Len(rec.log) : rec.log[i] = e ELSE 0

\* C34: in the awaiting_userid step setWebhook is called only after
\* storeBotLink has succeeded in the same handler; when storeBotLink fails,
\* no LinkRecord is written (the Link Store still holds, for every user, the
\* token of the last successful storeBotLink), no webhook is registered and
\* the chat is idle when the handler completes.
C34_WebhookOnlyAfterStore ==
    /\ \A h \in Handlers :
            LET rec == hs[h] IN
            /\ (rec.route = "main" /\ Did(rec, "setWebhook"))
                    => /\ rec.stored = "yes"
                       /\ 0 < PosOf(rec, "store")
                       /\ PosOf(rec, "store") < PosOf(rec, "setWebhook")
            /\ (rec.route = "main" /\ rec.stored = "no")
                    => /\ rec.pc \in {"send", "done"}
                       /\ rec.setOk = "none"
                       /\ ~Did(rec, "setWebhook")
                       /\ rec.pc = "done" => rec.endConv = NoConv
    /\ botLinks = {[user_id |-> u, bot_token |-> lastLink[u]] :
                        u \in {v \in LinkUsers : lastLink[v] # NullToken}}

\* C34 witness: storeBotLink was called while the store did not answer; the
\* handler completed without a webhook call and the chat is idle.
C34_Witness ==
    \E h \in MainDone :
        /\ hs[h].branch = "userid"
        /\ hs[h].stored = "no"
        /\ Did(hs[h], "store")
        /\ hs[h].setOk = "none"
        /\ hs[h].endConv = NoConv
        /\ botLinks = InitialLinks

\* C35: once a '/add' handler has set a chat to awaiting_token, a handler of
\* the same chat that started earlier and resumes afterwards neither deletes
\* that entry nor replaces it.
C35_AddResetNotUndone ==
    [][\A h \in Handlers :
          (/\ hs[h].route = "main"
           /\ hs[h].reset
           /\ hs[h].chat \in Chats
           /\ hs'[h].pc # hs[h].pc
           /\ convState[hs[h].chat].step = "awaiting_token")
              => convState'[hs[h].chat] = convState[hs[h].chat]]_vars

\* C36: every conversation entry in awaiting_userid carries a token for
\* which getMe answered ok, and every bot_token the /main handler stores, or
\* has stored, is such a token, also when handlers of one chat interleave.
C36_OnlyProbedTokens ==
    /\ \A c \in Chats :
            convState[c].step = "awaiting_userid"
                => convState[c].botToken \in ValidTokens
    /\ \A h \in Handlers :
            (hs[h].route = "main" /\ hs[h].pc \in {"store", "webhook"})
                => hs[h].botToken \in ValidTokens
    /\ \A u \in LinkUsers : lastLink[u] # NullToken => lastLink[u] \in ValidTokens
    /\ \A d \in botLinks : d.bot_token \in ValidTokens

\* C36 witness: while another message of the chat was being handled, a
\* handler stored the token the chat had cached in awaiting_userid.
C36_Witness ==
    \E h \in MainDone :
        /\ ~hs[h].alone
        /\ hs[h].stored = "yes"
        /\ hs[h].state = [step |-> "awaiting_userid", botToken |-> T2]
        /\ lastLink[hs[h].userId] = T2

====
